---- MODULE Spec2Model ----
(***************************************************************************)
(* A model of streamlit_agent/essay_grader.py: one Streamlit script run of  *)
(* main() per user interaction, the blocking call to the LLM, and the pure  *)
(* text functions (regex search / substitution, json.loads, str.strip,      *)
(* create_radar_chart) that main() applies to the LLM's response.           *)
(*                                                                          *)
(* Text is a sequence of lexical tokens.  The regular expressions of the    *)
(* program only distinguish '{' and '}' from everything else, str.strip()   *)
(* only distinguishes whitespace, and json.loads sees the matched block as  *)
(* braces, whitespace, commas and  "key": integer  members; every other     *)
(* kind of character is prose.                                              *)
(***************************************************************************)
EXTENDS Integers, Sequences, FiniteSets, TLC

VARIABLES
    pc,           \* "idle" | "calling" (blocked in llm.predict) | "done"
    question,     \* st.text_area value, line 127
    answer,       \* st.text_area value, line 128
    pressed,      \* st.button value of this script run, line 131
    feedback,     \* main's local `feedback`: None or the response text
    scores_dict,  \* main's local `scores_dict` (None until line 141 assigns)
    display,      \* the elements this script run has put on the page, in order
    llmCalls,     \* number of llm.predict invocations in this script run
    llmRaised,    \* whether llm.predict raised in this script run
    escaped       \* whether an exception propagated out of main()

vars == <<pc, question, answer, pressed, feedback, scores_dict, display,
          llmCalls, llmRaised, escaped>>

----------------------------------------------------------------------------
(* Bounds of the model *)

\* longest exhaustively enumerated response text, in tokens
MaxLen == 5

\* longest enumerated content of each block of a two-block response
MaxInner == 1

----------------------------------------------------------------------------
(* Tokens and texts *)

Tok(t) == [t |-> t, k |-> "", v |-> 0]
\* a  "key": value  member of a JSON object, as one lexical unit
Member(k, v) == [t |-> "member", k |-> k, v |-> v]

LB == Tok("{")
RB == Tok("}")
WS == Tok(" ")
COMMA == Tok(",")
PROSE == Tok("x")

\* line 22 (names transliterated: 切題性, 結構與邏輯, 專業與政策理解,
\* 批判與建議具體性, 語言與表達)
CATEGORIES == <<"relevance", "structure", "policy", "critique", "language">>

\* the example scores of the prompt, lines 63-67
ExampleScore == [relevance |-> 4, structure |-> 3, policy |-> 5,
                 critique |-> 4, language |-> 2]

Alphabet == {LB, RB, WS, COMMA,
             Member("relevance", 4), Member("structure", 3),
             Member("relevance", 7)}

BoundedTexts == UNION {[1..n -> Alphabet] : n \in 0..MaxLen}

RECURSIVE Join(_, _)
\* the members ms separated by commas
Join(ms, i) ==
    IF i > Len(ms) THEN <<>>
    ELSE IF i = Len(ms) THEN <<ms[i]>>
    ELSE <<ms[i], COMMA>> \o Join(ms, i + 1)

Perms == {p \in [1..Len(CATEGORIES) -> 1..Len(CATEGORIES)] :
             \A i, j \in 1..Len(CATEGORIES) : i # j => p[i] # p[j]}

\* a response of the shape the prompt asks for: prose, one score block that
\* holds the five categories in the order the LLM chose, prose
RubricResponse(p) ==
    <<PROSE, WS, LB>>
    \o Join([i \in 1..Len(CATEGORIES) |->
               Member(CATEGORIES[p[i]], ExampleScore[CATEGORIES[p[i]]])], 1)
    \o <<RB, WS, PROSE>>

RubricResponses == {RubricResponse(p) : p \in Perms}

InnerAlphabet == Alphabet \ {RB}
InnerTexts == UNION {[1..n -> InnerAlphabet] : n \in 0..MaxInner}

\* responses with two blocks, next to each other or a space apart
TwoBlockResponses ==
    {<<LB>> \o a \o <<RB>> \o mid \o <<LB>> \o b \o <<RB>> :
        a \in InnerTexts, b \in InnerTexts, mid \in {<<>>, <<WS>>}}

\* what llm.predict may return
Responses == BoundedTexts \cup RubricResponses \cup TwoBlockResponses

\* what llm.predict may raise (str(e)); every one is an Exception
Errors == {"quota", "auth"}

Questions == {"", " ", "X"}
Answers == {"", "Y"}

----------------------------------------------------------------------------
(* Python values *)

None == [some |-> FALSE, val |-> <<>>]
Some(x) == [some |-> TRUE, val |-> x]

\* Python truthiness of a str: `not question`
Falsy(s) == s = ""

----------------------------------------------------------------------------
(* Page elements *)

NoFig == [r |-> <<>>, theta |-> <<>>, range |-> <<>>]
\* one st.* call: its kind, the source line of the call, its text, its figure
Elem(kind, line, text, fig) ==
    [kind |-> kind, line |-> line, text |-> text, fig |-> fig]

Static(kind, line) == Elem(kind, line, <<>>, NoFig)

----------------------------------------------------------------------------
(* re: the pattern \{[\s\S]*?\} (line 88), which is also \{.*?\} under      *)
(* re.DOTALL (line 150)                                                     *)

NoMatch == [start |-> 0, end |-> 0]

RECURSIVE GreedyEnd(_, _)
\* the greedy pattern \{[\s\S]*\}: the last '}' from position e on
GreedyEnd(t, e) ==
    IF e > Len(t) THEN 0
    ELSE IF GreedyEnd(t, e + 1) # 0 THEN GreedyEnd(t, e + 1)
    ELSE IF t[e] = RB THEN e
    ELSE 0

RECURSIVE LazyEnd(_, _)
\* [\s\S]*?\} tried from position e: the lazy star takes one more character
\* only when '}' does not match here; 0 when the text runs out
LazyEnd(t, e) ==
    IF e > Len(t) THEN 0
    ELSE IF t[e] = RB THEN e
    ELSE LazyEnd(t, e + 1)

RECURSIVE SearchFrom(_, _)
\* the regex engine's scan: the leftmost start position at which the pattern
\* matches, from pos on
SearchFrom(t, pos) ==
    IF pos > Len(t) THEN NoMatch
    ELSE IF t[pos] = LB /\ LazyEnd(t, pos + 1) # 0
         THEN [start |-> pos, end |-> LazyEnd(t, pos + 1)]
    ELSE SearchFrom(t, pos + 1)

\* re.search(r"\{[\s\S]*?\}", feedback), line 88
re_search(t) == SearchFrom(t, 1)

\* match.group(), line 90
group(t, m) == SubSeq(t, m.start, m.end)

\* re.sub with count=1: only the first match is removed
SubFirst(t, pos) ==
    LET m == SearchFrom(t, pos)
    IN  IF m = NoMatch THEN SubSeq(t, pos, Len(t))
        ELSE SubSeq(t, pos, m.start - 1) \o SubSeq(t, m.end + 1, Len(t))

RECURSIVE SubFrom(_, _)
\* re.sub with an empty replacement: the text between the non-overlapping
\* matches, scanning on from the end of each match
SubFrom(t, pos) ==
    LET m == SearchFrom(t, pos)
    IN  IF m = NoMatch THEN SubSeq(t, pos, Len(t))
        ELSE SubSeq(t, pos, m.start - 1) \o SubFrom(t, m.end + 1)

\* re.sub(r"\{.*?\}", "", feedback, flags=re.DOTALL), line 150
re_sub(t) == SubFrom(t, 1)

RECURSIVE lstrip(_)
lstrip(t) == IF t # <<>> /\ Head(t) = WS THEN lstrip(Tail(t)) ELSE t

RECURSIVE rstrip(_)
rstrip(t) ==
    IF t # <<>> /\ t[Len(t)] = WS THEN rstrip(SubSeq(t, 1, Len(t) - 1)) ELSE t

\* str.strip(), line 150
strip(t) == rstrip(lstrip(t))

\* line 150
clean_feedback(t) == strip(re_sub(t))

----------------------------------------------------------------------------
(* json.loads on a text that starts with '{' (line 90)                      *)

Item(k, v) == [k |-> k, v |-> v]

\* dict[k] = v: a key already present keeps its place and takes the value
DictPut(d, k, v) ==
    IF \E i \in DOMAIN d : d[i].k = k
    THEN [i \in DOMAIN d |-> IF d[i].k = k THEN Item(k, v) ELSE d[i]]
    ELSE Append(d, Item(k, v))

RECURSIVE DictOf(_, _, _)
\* the dict of the members at the odd positions of toks, in order
DictOf(toks, i, d) ==
    IF i > Len(toks) THEN d
    ELSE DictOf(toks, i + 2, DictPut(d, toks[i].k, toks[i].v))

\* the JSON object grammar: '{' ws [ member ws { ',' ws member ws } ] '}'
\* and nothing after it
IsObject(s) ==
    LET toks == SelectSeq(SubSeq(s, 2, Len(s) - 1), LAMBDA x : x # WS)
    IN  /\ Len(s) >= 2
        /\ s[1] = LB
        /\ s[Len(s)] = RB
        /\ \/ toks = <<>>
           \/ /\ Len(toks) % 2 = 1
              /\ \A i \in DOMAIN toks :
                    IF i % 2 = 1 THEN toks[i].t = "member" ELSE toks[i] = COMMA

\* json.loads(s): ok = FALSE stands for json.JSONDecodeError
json_loads(s) ==
    IF IsObject(s)
    THEN [ok |-> TRUE,
          val |-> DictOf(SelectSeq(SubSeq(s, 2, Len(s) - 1),
                                   LAMBDA x : x # WS), 1, <<>>)]
    ELSE [ok |-> FALSE, val |-> <<>>]

\* list(scores_dict.keys()), list(scores_dict.values()), line 144
keys(d) == [i \in DOMAIN d |-> d[i].k]
values(d) == [i \in DOMAIN d |-> d[i].v]

\* `if scores_dict:` line 142: None and the empty dict are falsy
Truthy(o) == o.some /\ o.val # <<>>

----------------------------------------------------------------------------
(* The functions of the program *)

\* extract_scores_from_json without the `if match:` of line 89: on a text
\* with no match, match.group() raises and line 93 shows the error
extract_scores_unguarded(fb) ==
    LET m == re_search(fb)
    IN  IF m # NoMatch /\ json_loads(group(fb, m)).ok
        THEN [result |-> Some(json_loads(group(fb, m)).val), shown |-> <<>>]
        ELSE [result |-> None,
              shown |-> <<Elem("error", 93, <<Tok("Exception")>>, NoFig)>>]

\* lines 87-94: the value returned and the st.error calls made
extract_scores_from_json(fb) ==
    LET m == re_search(fb)
    IN  IF m = NoMatch THEN [result |-> None, shown |-> <<>>]
        ELSE IF json_loads(group(fb, m)).ok
             THEN [result |-> Some(json_loads(group(fb, m)).val),
                   shown |-> <<>>]
        ELSE [result |-> None,
              shown |-> <<Elem("error", 93, <<Tok("JSONDecodeError")>>, NoFig)>>]

RECURSIVE MaxOf(_, _)
MaxOf(xs, m) ==
    IF xs = <<>> THEN m
    ELSE MaxOf(Tail(xs), IF Head(xs) > m THEN Head(xs) ELSE m)

\* create_radar_chart with a radial axis that grows with the scores
create_radar_chart_autorange(scores, categories) ==
    [r |-> scores \o SubSeq(scores, 1, 1),
     theta |-> categories \o SubSeq(categories, 1, 1),
     range |-> <<0, MaxOf(scores, 5)>>]

\* lines 109-116
create_radar_chart(scores, categories) ==
    [r |-> scores \o SubSeq(scores, 1, 1),
     theta |-> categories \o SubSeq(categories, 1, 1),
     range |-> <<0, 5>>]

\* lines 72-74: the except clause of get_feedback shows the error and
\* raises it again
get_feedback_except(disp, e) ==
    [display |-> Append(disp, Elem("error", 73, <<Tok(e)>>, NoFig)),
     raises |-> TRUE]

\* main with an except clause too narrow for the error: nothing is shown
\* and the error leaves main()
main_except_narrow(disp, e) == [display |-> disp, raises |-> TRUE]

\* lines 152-153: main's `except Exception` handles the error
main_except(disp, e) ==
    [display |-> Append(disp, Elem("error", 153, <<Tok(e)>>, NoFig)),
     raises |-> FALSE]

\* main_show with the st.write of line 151 inside the `if scores_dict:`
main_show_with_chart_only(disp, fb) ==
    LET x == extract_scores_from_json(fb)
        d1 == Append(disp, Static("subheader", 138)) \o x.shown
    IN  IF Truthy(x.result)
        THEN d1 \o <<Elem("plotly_chart", 146, <<>>,
                          create_radar_chart(values(x.result.val),
                                             keys(x.result.val))),
                     Elem("write", 151, clean_feedback(fb), NoFig)>>
        ELSE d1

\* lines 138-151: the rest of the try block once get_feedback has returned
main_show(disp, fb) ==
    LET x == extract_scores_from_json(fb)
        d1 == Append(disp, Static("subheader", 138)) \o x.shown
        d2 == IF Truthy(x.result)
              THEN Append(d1, Elem("plotly_chart", 146, <<>>,
                       create_radar_chart(values(x.result.val),
                                          keys(x.result.val))))
              ELSE d1
    IN  Append(d2, Elem("write", 151, clean_feedback(fb), NoFig))

\* line 132 with `and` for `or`
InputMissingBoth(q, a) == Falsy(q) /\ Falsy(a)

\* line 132
InputMissing(q, a) == Falsy(q) \/ Falsy(a)

\* lines 123-125: what every script run shows first
Header == <<Static("title", 123), Static("write", 124), Static("write", 125)>>

----------------------------------------------------------------------------
(* The script runs *)

Init ==
    /\ pc = "idle"
    /\ question = ""
    /\ answer = ""
    /\ pressed = FALSE
    /\ feedback = None
    /\ scores_dict = None
    /\ display = <<>>
    /\ llmCalls = 0
    /\ llmRaised = FALSE
    /\ escaped = FALSE

\* Streamlit runs main() anew on an interaction: lines 123-137, up to the
\* end of the run or to the call of llm.predict
Rerun ==
    /\ pc \in {"idle", "done"}
    /\ \E q \in Questions, a \in Answers, b \in BOOLEAN :
          /\ question' = q
          /\ answer' = a
          /\ pressed' = b
          /\ IF ~b THEN /\ display' = Header
                        /\ pc' = "done"
             ELSE IF InputMissing(q, a)
                  THEN /\ display' = Append(Header, Static("warning", 133))
                       /\ pc' = "done"
             ELSE /\ display' = Header
                  /\ pc' = "calling"
    /\ feedback' = None
    /\ scores_dict' = None
    /\ llmCalls' = 0
    /\ llmRaised' = FALSE
    /\ escaped' = FALSE

\* llm.predict returns (lines 70-71) and main goes on to its end (137-151)
LlmReturns ==
    /\ pc = "calling"
    /\ \E text \in Responses :
          /\ feedback' = Some(text)
          /\ scores_dict' = extract_scores_from_json(text).result
          /\ display' = main_show(display, text)
    /\ llmCalls' = llmCalls + 1
    /\ pc' = "done"
    /\ UNCHANGED <<question, answer, pressed, llmRaised, escaped>>

\* a get_feedback that calls llm.predict again after a failure
LlmRaisesRetry ==
    /\ pc = "calling"
    /\ llmCalls < 3
    /\ display' = Append(display, Elem("error", 73, <<Tok("retry")>>, NoFig))
    /\ llmCalls' = llmCalls + 1
    /\ llmRaised' = TRUE
    /\ pc' = "calling"
    /\ UNCHANGED <<question, answer, pressed, feedback, scores_dict, escaped>>

\* llm.predict raises (line 70): get_feedback's except clause (72-74), then
\* main's (152-153)
LlmRaises ==
    /\ pc = "calling"
    /\ \E e \in Errors :
          LET g == get_feedback_except(display, e)
              h == main_except(g.display, e)
          IN  /\ g.raises
              /\ display' = h.display
              /\ escaped' = h.raises
    /\ llmCalls' = llmCalls + 1
    /\ llmRaised' = TRUE
    /\ pc' = "done"
    /\ UNCHANGED <<question, answer, pressed, feedback, scores_dict>>

Next == Rerun \/ LlmReturns \/ LlmRaises

Spec == Init /\ [][Next]_vars

----------------------------------------------------------------------------
(* What a script run has shown, and shapes of text, as the properties       *)
(* below speak of them                                                      *)

Shown(kind) == \E i \in DOMAIN display : display[i].kind = kind

HeadingShown == Shown("subheader")
ChartShown == Shown("plotly_chart")
\* the st.write of line 151 (lines 124-125 write the greeting)
NarrativeShown ==
    \E i \in DOMAIN display :
        display[i].kind = "write" /\ display[i].line = 151
WarningShown == Shown("warning")
NumErrors == Cardinality({i \in DOMAIN display : display[i].kind = "error"})

\* a '{' followed later by a '}'
HasBlock(t) == \E i, j \in DOMAIN t : i < j /\ t[i] = LB /\ t[j] = RB

\* two such substrings, one after the other
TwoBlocks(t) ==
    \E i, j, k, l \in DOMAIN t :
        /\ i < j /\ j < k /\ k < l
        /\ t[i] = LB /\ t[j] = RB /\ t[k] = LB /\ t[l] = RB

\* i..j is the shortest span from the first '{' to the next '}'
FirstSpan(t, i, j) ==
    /\ i < j /\ t[i] = LB /\ t[j] = RB
    /\ \A k \in 1..(i - 1) : t[k] # LB
    /\ \A k \in (i + 1)..(j - 1) : t[k] # RB

\* i..j is some later '{'..'}' span, after the first one's end
LaterSpan(t, i, j) ==
    /\ i < j /\ t[i] = LB /\ t[j] = RB
    /\ \E a, b \in 1..(i - 1) : FirstSpan(t, a, b)

\* n is t without its leading and trailing whitespace
TrimOf(n, t) ==
    \E i \in 1..(Len(t) + 1), j \in 0..Len(t) :
        /\ n = SubSeq(t, i, j)
        /\ \A k \in 1..(i - 1) : t[k] = WS
        /\ \A k \in (j + 1)..Len(t) : t[k] = WS
        /\ n # <<>> => (n[1] # WS /\ n[Len(n)] # WS)

RECURSIVE IsSubsequence(_, _)
\* n is t with some of its tokens left out
IsSubsequence(n, t) ==
    IF n = <<>> THEN TRUE
    ELSE IF t = <<>> THEN FALSE
    ELSE IF Head(n) = Head(t) THEN IsSubsequence(Tail(n), Tail(t))
    ELSE IsSubsequence(n, Tail(t))

\* a submission whose inputs pass line 132
ValidSubmission == pressed /\ question # "" /\ answer # ""

----------------------------------------------------------------------------
(* Properties *)

\* C1: a submission with an empty question or an empty answer never invokes
\* the LLM, shows the warning, and shows no result heading, chart or
\* narrative.
C1_EmptyInputNeverGrades ==
    (pressed /\ (question = "" \/ answer = "")) =>
        /\ pc = "done"
        /\ llmCalls = 0
        /\ WarningShown
        /\ ~HeadingShown /\ ~ChartShown /\ ~NarrativeShown

C1_Witness ==
    pressed /\ question = "X" /\ answer = "" /\ pc = "done" /\ WarningShown

\* C2: when llm.predict raises, the run shows no result heading, no chart
\* and no narrative; after the greeting it shows only errors, and the
\* exception does not leave main().
C2_RaiseShowsNoPartialResult ==
    llmRaised =>
        /\ pc = "done"
        /\ ~escaped
        /\ ~HeadingShown /\ ~ChartShown /\ ~NarrativeShown
        /\ NumErrors >= 1
        /\ \A i \in DOMAIN display :
              i > Len(Header) => display[i].kind = "error"

C2_Witness == llmRaised /\ pc = "done" /\ NumErrors >= 1 /\ ValidSubmission

\* C3: when the response has no {...} block, or its first block is not
\* JSON, extract_scores_from_json returns None, the run goes on to its end
\* without an exception, shows no chart and still shows the narrative: the
\* response without its blocks, trimmed.  A chart is shown only when a score
\* mapping was obtained.
C3_ParseFailureKeepsNarrative ==
    feedback.some =>
        LET t == feedback.val
            unparsed ==
                \/ ~HasBlock(t)
                \/ \E i, j \in DOMAIN t :
                      FirstSpan(t, i, j) /\ ~json_loads(SubSeq(t, i, j)).ok
        IN  /\ unparsed =>
                /\ scores_dict = None
                /\ pc = "done" /\ ~escaped /\ ~llmRaised
                /\ HeadingShown
                /\ ~ChartShown
                /\ display[Len(display)].kind = "write"
                /\ display[Len(display)].line = 151
                /\ ~HasBlock(display[Len(display)].text)
                /\ IsSubsequence(display[Len(display)].text, t)
                /\ TrimOf(display[Len(display)].text,
                          display[Len(display)].text)
                /\ ~HasBlock(t) => TrimOf(display[Len(display)].text, t)
            /\ ChartShown => (scores_dict.some /\ scores_dict.val # <<>>)

\* a first block that is not JSON, prose around it, and the prose shown
C3_Witness ==
    /\ feedback.some
    /\ \E i, j \in DOMAIN feedback.val :
          /\ FirstSpan(feedback.val, i, j)
          /\ ~json_loads(SubSeq(feedback.val, i, j)).ok
    /\ scores_dict = None
    /\ NumErrors = 1
    /\ display[Len(display)].line = 151
    /\ display[Len(display)].text # <<>>

C5_SingleErrorMessage == (pc = "done" /\ llmRaised) => NumErrors = 1

\* C6: on a text with two or more {...} substrings,
\* extract_scores_from_json returns what the first one (the shortest span
\* from the first '{' to the next '}') parses to, and None when that one is
\* not JSON, whatever the later blocks hold.
C6_FirstBlockOnly ==
    (feedback.some /\ TwoBlocks(feedback.val)) =>
        \A i, j \in DOMAIN feedback.val :
            FirstSpan(feedback.val, i, j) =>
                scores_dict =
                    IF json_loads(SubSeq(feedback.val, i, j)).ok
                    THEN Some(json_loads(SubSeq(feedback.val, i, j)).val)
                    ELSE None

\* the first block is malformed, a later one holds a score, None is returned
C6_Witness ==
    /\ feedback.some
    /\ \E i, j \in DOMAIN feedback.val :
          /\ FirstSpan(feedback.val, i, j)
          /\ ~json_loads(SubSeq(feedback.val, i, j)).ok
    /\ \E i, j \in DOMAIN feedback.val :
          /\ LaterSpan(feedback.val, i, j)
          /\ json_loads(SubSeq(feedback.val, i, j)).ok
          /\ json_loads(SubSeq(feedback.val, i, j)).val # <<>>
    /\ scores_dict = None

\* C7: the narrative shown holds no '{' followed later by '}' (every block
\* of the response is removed, not only the first), and stripping it again
\* changes nothing.
C7_StripRemovesEveryBlock ==
    \A i \in DOMAIN display :
        (display[i].kind = "write" /\ display[i].line = 151) =>
            /\ ~HasBlock(display[i].text)
            /\ clean_feedback(display[i].text) = display[i].text

\* two blocks removed, and something left to show
C7_Witness ==
    /\ feedback.some /\ TwoBlocks(feedback.val)
    /\ display[Len(display)].line = 151
    /\ display[Len(display)].text # <<>>
    /\ Len(display[Len(display)].text) < Len(feedback.val) - 3

\* C8: the chart of a mapping of n >= 1 entries has n + 1 points, in the
\* mapping's order, the last a copy of the first, and its radial axis range
\* is [0, 5] whatever the scores.
C8_ClosedPolygonFixedRange ==
    \A i \in DOMAIN display :
        display[i].kind = "plotly_chart" =>
            LET f == display[i].fig
                d == scores_dict.val
                n == Len(d)
            IN  /\ scores_dict.some /\ n >= 1
                /\ Len(f.r) = n + 1 /\ Len(f.theta) = n + 1
                /\ \A k \in 1..n : f.r[k] = d[k].v /\ f.theta[k] = d[k].k
                /\ f.r[n + 1] = d[1].v /\ f.theta[n + 1] = d[1].k
                /\ f.range = <<0, 5>>

\* a chart of two entries with a score above 5
C8_Witness ==
    \E i \in DOMAIN display :
        /\ display[i].kind = "plotly_chart"
        /\ Len(display[i].fig.r) = 3
        /\ \E k \in DOMAIN display[i].fig.r : display[i].fig.r[k] > 5

\* C9: a submission with a non-empty question and answer calls the LLM
\* exactly once: never a second time, after a failure or after a success.
C9_ExactlyOneCall ==
    /\ llmCalls <= 1
    /\ (ValidSubmission /\ pc = "done") => llmCalls = 1
    /\ (ValidSubmission /\ pc = "calling") => llmCalls = 0

C9_Witness == ValidSubmission /\ pc = "done" /\ llmRaised /\ llmCalls = 1

\* C10, as claimed: when the score block holds the rubric's categories, in
\* whatever order, the chart's axes are in the order of CATEGORIES.
C10_AxesInRubricOrder ==
    \A i \in DOMAIN display :
        (/\ display[i].kind = "plotly_chart"
         /\ Len(scores_dict.val) = Len(CATEGORIES)
         /\ {scores_dict.val[k].k : k \in DOMAIN scores_dict.val}
               = {CATEGORIES[k] : k \in DOMAIN CATEGORIES}) =>
            SubSeq(display[i].fig.theta, 1, Len(CATEGORIES)) = CATEGORIES

====
